---- MODULE Spec2Model ----
(***************************************************************************)
(* analyze_branches.py: the Git branch analyzer.                           *)
(*                                                                         *)
(* The program is one pipeline: main() checks that it runs inside a        *)
(* repository, GitBranchAnalyzer.__init__ asks for the current and the     *)
(* default branch, analyze() lists the branches, inspects each one with    *)
(* get_branch_info(), sorts the records, buckets them into stale, active   *)
(* and merged, and main() prints the result as JSON or as a text report.   *)
(*                                                                         *)
(* Strings the code searches in (branch names, lines of a listing) are     *)
(* sequences of one-character strings, so `a in b` is a real substring     *)
(* test.  A text is the sequence of its lines; the empty text has no       *)
(* line.  Time is counted in ticks, TicksPerDay of them to a day.          *)
(***************************************************************************)
EXTENDS Integers, Sequences, FiniteSets, TLC

VARIABLES
    repo,             \* what the git binary answers (the environment)
    args,             \* the parsed command line: stale_days, include_remote, json
    now,              \* the wall clock, read by datetime.now()
    pc,               \* position of main()
    current_branch,   \* GitBranchAnalyzer.current_branch
    default_branch,   \* GitBranchAnalyzer.default_branch
    branches,         \* analyze(): the list get_branches() returned
    idx,              \* analyze(): position of the inspection loop
    branch_infos,     \* analyze(): the accumulated BranchInfo records
    stale_branches,   \* analyze(): the stale bucket
    active_branches,  \* analyze(): the active bucket
    tStale,           \* clock reading of the stale test (history)
    tActive,          \* clock reading of the active test (history)
    analysis,         \* the one-element sequence holding analyze()'s dict
    stdout,           \* what was printed on standard output
    stderr,           \* the diagnostics printed on standard error, in order
    exit_code,        \* the process exit status, -1 while running
    queries           \* the git queries issued so far

vars == <<repo, args, now, pc, current_branch, default_branch, branches, idx,
          branch_infos, stale_branches, active_branches, tStale, tActive,
          analysis, stdout, stderr, exit_code, queries>>

----------------------------------------------------------------------------
(* Bounds of the model *)

MaxBranches == 3        \* local branches of a repository
MaxTicks == 1           \* clock ticks during one run
MaxReportBranches == 6  \* branches besides main in the report repositories

TicksPerDay == 2        \* resolution of the clock
Now0 == 200             \* the clock when the process starts
RecommendationCap == 5  \* names shown per recommendation
DefaultStaleDays == 30  \* --days default

----------------------------------------------------------------------------
(* Strings *)

EmptyStr == <<>>
EmptyText == <<>>
None == <<>>

Main == <<"m", "a", "i", "n">>
Master == <<"m", "a", "s", "t", "e", "r">>
FeatureX == <<"f", "e", "a", "t", "u", "r", "e", "-", "x">>
FeatureX2 == <<"f", "e", "a", "t", "u", "r", "e", "-", "x", "2">>
FeatureY == <<"f", "e", "a", "t", "u", "r", "e", "-", "y">>
OriginMain == <<"o", "r", "i", "g", "i", "n", "/", "m", "a", "i", "n">>
OriginHead == <<"o", "r", "i", "g", "i", "n", "/", "H", "E", "A", "D">>
RemotesPrefix == <<"r", "e", "m", "o", "t", "e", "s", "/">>
StarMarker == <<"*", " ">>
Arrow == <<"-", ">">>
Indent == <<" ", " ">>
Digits == <<"1", "2", "3", "4", "5", "6", "7", "8", "9">>

\* Python: p in s
IsSubstring(p, s) ==
    \E i \in 0..(Len(s) - Len(p)) : SubSeq(s, i + 1, i + Len(p)) = p

RECURSIVE LStrip(_)
LStrip(s) ==
    IF s # <<>> /\ Head(s) = " " THEN LStrip(Tail(s)) ELSE s

RECURSIVE RStrip(_)
RStrip(s) ==
    IF s # <<>> /\ s[Len(s)] = " " THEN RStrip(SubSeq(s, 1, Len(s) - 1)) ELSE s

\* Python: s.strip()
Strip(s) == RStrip(LStrip(s))

\* Python: s.replace(pat, rep)
RECURSIVE Replace(_, _, _)
Replace(s, pat, rep) ==
    IF Len(s) < Len(pat) THEN s
    ELSE IF SubSeq(s, 1, Len(pat)) = pat
         THEN rep \o Replace(SubSeq(s, Len(pat) + 1, Len(s)), pat, rep)
         ELSE <<Head(s)>> \o Replace(Tail(s), pat, rep)

\* Python: text.strip() of a text with no blank first or last line
StripText(lines) ==
    IF lines = <<>> THEN <<>>
    ELSE IF Len(lines) = 1 THEN <<Strip(lines[1])>>
    ELSE <<LStrip(lines[1])>> \o SubSeq(lines, 2, Len(lines) - 1)
         \o <<RStrip(lines[Len(lines)])>>

\* Python: text.split('\n'); the empty string splits into one empty line
SplitLines(text) == IF text = EmptyText THEN <<EmptyStr>> ELSE text

----------------------------------------------------------------------------
(* The git binary: what each query prints for a repository r.  A result    *)
(* is [ok, out]: the exit status and the standard output.                  *)

Failed == [ok |-> FALSE, out |-> <<>>]
Printed(out) == [ok |-> TRUE, out |-> out]

\* a '|'-separated piece of a log line, and a whitespace-separated token
TextPiece(t) == [iso |-> FALSE, ticks |-> 0, offset |-> "", text |-> t]
DatePiece(t, o) == [iso |-> TRUE, ticks |-> t, offset |-> o, text |-> "date"]
IntTok(n) == [int |-> TRUE, val |-> n]
JunkTok == [int |-> FALSE, val |-> 0]

Resolves(r, name) ==
    \/ \E i \in 1..Len(r.refs) : r.refs[i] = name
    \/ \E i \in 1..Len(r.remotes) : r.remotes[i] = name

\* git branch -l / git branch -a
LocalLine(r, name) == (IF name = r.head THEN StarMarker ELSE Indent) \o name

GitBranchList(r, all) ==
    IF ~r.listOk THEN Failed
    ELSE Printed(
        [i \in 1..Len(r.refs) |-> LocalLine(r, r.refs[i])]
        \o (IF all /\ r.remotes # <<>>
            THEN <<Indent \o RemotesPrefix \o OriginHead \o <<" ">> \o Arrow
                   \o <<" ">> \o r.remotes[1]>>
                 \o [i \in 1..Len(r.remotes) |->
                        Indent \o RemotesPrefix \o r.remotes[i]]
            ELSE <<>>))

\* git rev-parse --abbrev-ref HEAD
GitCurrentBranch(r) ==
    IF r.listOk /\ r.refs # <<>> THEN Printed(<<r.head>>) ELSE Failed

\* git log -1 --format=%H|%aI|%an|%s <branch>
GitLog(r, branch) ==
    IF Resolves(r, branch) THEN r.log[branch] ELSE Failed

\* git rev-list --count <branch>
GitCount(r, branch) ==
    IF Resolves(r, branch) THEN r.count[branch] ELSE Failed

\* git branch --merged <default>: the local branches reachable from it
GitBranchMerged(r, default) ==
    IF ~Resolves(r, default) THEN Failed
    ELSE Printed(
        LET keep == SelectSeq(r.refs, LAMBDA n : n \in r.merged)
        IN  [i \in 1..Len(keep) |-> LocalLine(r, keep[i])])

\* git rev-list --left-right --count <default>...<branch>
GitAheadBehind(r, default, branch) ==
    IF Resolves(r, default) /\ Resolves(r, branch) THEN r.ab[branch] ELSE Failed

----------------------------------------------------------------------------
(* _run_git_command: trimmed output, or a diagnostic and the empty string. *)
(* RunGitLines is the same call on an output made of lines, where the      *)
(* trimming shows.                                                         *)

RunGitCommand(res) ==
    IF res.ok THEN [out |-> res.out, err |-> <<>>]
    ELSE [out |-> EmptyText, err |-> <<"git-command-error">>]

RunGitLines(res) ==
    IF res.ok THEN [out |-> StripText(res.out), err |-> <<>>]
    ELSE [out |-> EmptyText, err |-> <<"git-command-error">>]

\* the check left out: main() goes on whatever git answered
InGitRepositoryUnchecked(r) == TRUE

\* main(): git rev-parse --git-dir succeeded
InGitRepository(r) == r.inRepo

\* _get_current_branch
GetCurrentBranch(r) ==
    LET res == RunGitLines(GitCurrentBranch(r))
    IN  [value |-> IF res.out = EmptyText THEN EmptyStr ELSE res.out[1],
         err |-> res.err]

\* _get_default_branch: 'main' if some line of `git branch -a` contains it
GetDefaultBranch(r) ==
    LET res == RunGitLines(GitBranchList(r, TRUE))
        lines == SplitLines(res.out)
    IN  [value |-> IF \E i \in 1..Len(lines) :
                        IsSubstring(Main, Replace(Strip(lines[i]), StarMarker, EmptyStr))
                   THEN Main ELSE Master,
         err |-> res.err]

\* get_branches: one name per line that is not blank and not a symbolic ref
CleanLine(line) ==
    Replace(Replace(Strip(line), StarMarker, EmptyStr), RemotesPrefix, EmptyStr)

\* the listing with its blank lines kept as names
GetBranchesKeepBlank(r, a) ==
    LET res == RunGitLines(GitBranchList(r, a.include_remote))
        lines == SplitLines(res.out)
        clean == [i \in 1..Len(lines) |-> CleanLine(lines[i])]
    IN  [value |-> SelectSeq(clean, LAMBDA l : ~IsSubstring(Arrow, l)),
         err |-> res.err]

GetBranches(r, a) ==
    LET res == RunGitLines(GitBranchList(r, a.include_remote))
        lines == SplitLines(res.out)
        clean == [i \in 1..Len(lines) |-> CleanLine(lines[i])]
    IN  [value |-> SelectSeq(clean,
                       LAMBDA l : l # EmptyStr /\ ~IsSubstring(Arrow, l)),
         err |-> res.err]

----------------------------------------------------------------------------
(* get_branch_info *)

\* date_str.replace('Z', '+00:00')
ReplaceZ(p) == IF p.offset = "Z" THEN [p EXCEPT !.offset = "+00:00"] ELSE p

\* datetime.fromisoformat: the datetime, or nothing on ValueError; a string
\* with a UTC offset gives an aware datetime, one without a naive datetime
FromIsoFormat(p) ==
    IF p.iso THEN <<[ticks |-> p.ticks, aware |-> p.offset # ""]>> ELSE <<>>

\* int(commit_count) if commit_count else 0; nothing on ValueError
ParseCount(out) ==
    IF out = <<>> THEN <<0>>
    ELSE IF Len(out) = 1 /\ out[1].int THEN <<out[1].val>>
    ELSE <<>>

\* any(branch in line for line in merged_output.split('\n'))
IsMerged(branch, merged_output) ==
    LET lines == SplitLines(merged_output)
    IN  \E i \in 1..Len(lines) : IsSubstring(branch, lines[i])

\* the two counts stored in the order they are printed
ParseAheadBehindUnswapped(out) ==
    IF out = <<>> THEN None
    ELSE IF Len(out) = 2 /\ out[1].int /\ out[2].int
         THEN <<out[1].val, out[2].val>>
         ELSE None

\* behind, ahead = ahead_behind.split(); (int(ahead), int(behind));
\* None when the output is empty or the parse raises
ParseAheadBehind(out) ==
    IF out = <<>> THEN None
    ELSE IF Len(out) = 2 /\ out[1].int /\ out[2].int
         THEN <<out[2].val, out[1].val>>
         ELSE None

BranchInfo(name, date, sha, msg, author) ==
    [name |-> name, last_commit_date |-> date, last_commit_sha |-> sha,
     last_commit_msg |-> msg, author |-> author, commit_count |-> 0,
     is_merged |-> FALSE, ahead_behind |-> None]

\* The result: info holds the record or is empty (None); err the
\* diagnostics written; q the queries issued.
GetBranchInfo(r, branch, default) ==
    LET log == RunGitCommand(GitLog(r, branch))
        raised == <<"branch-info-error">>
    IN  IF log.out = <<>>
        THEN [info |-> <<>>, err |-> log.err, q |-> {"log"}]
        ELSE IF Len(log.out) < 4
        THEN [info |-> <<>>, err |-> log.err \o raised, q |-> {"log"}]
        ELSE
        LET date == FromIsoFormat(ReplaceZ(log.out[2]))
        IN  IF date = <<>>
            THEN [info |-> <<>>, err |-> log.err \o raised, q |-> {"log"}]
            ELSE
            LET cnt == RunGitCommand(GitCount(r, branch))
                mrg == RunGitLines(GitBranchMerged(r, default))
                n == ParseCount(cnt.out)
                msg == [i \in 1..(Len(log.out) - 3) |-> log.out[i + 3].text]
                base == BranchInfo(branch, date[1], log.out[1].text, msg,
                                   log.out[3].text)
            IN  IF n = <<>>
                THEN [info |-> <<>>, err |-> log.err \o cnt.err \o mrg.err \o raised,
                      q |-> {"log", "count", "merged"}]
                ELSE
                LET info == [base EXCEPT !.commit_count = n[1],
                                         !.is_merged = IsMerged(branch, mrg.out)]
                IN  IF branch # default
                    THEN LET ab == RunGitCommand(GitAheadBehind(r, default, branch))
                         IN  [info |-> <<[info EXCEPT
                                           !.ahead_behind = ParseAheadBehind(ab.out)]>>,
                              err |-> log.err \o cnt.err \o mrg.err \o ab.err,
                              q |-> {"log", "count", "merged", "ahead-behind"}]
                    ELSE [info |-> <<info>>,
                          err |-> log.err \o cnt.err \o mrg.err,
                          q |-> {"log", "count", "merged"}]

----------------------------------------------------------------------------
(* analyze *)

Min(a, b) == IF a < b THEN a ELSE b

\* (datetime.now() - last_commit_date).days, the floor of the difference
DaysSinceUpdate(b, t) == (t - b.last_commit_date.ticks) \div TicksPerDay

\* datetime.now() is naive: subtracting an aware datetime raises TypeError
SubtractRaises(b) == b.last_commit_date.aware

\* comparing a naive with an aware datetime raises TypeError
SortRaises(infos) ==
    \E i, j \in 1..Len(infos) :
        infos[i].last_commit_date.aware # infos[j].last_commit_date.aware

\* a sort that puts a record before the records of the same date
InsertByDateUnstable(sorted, x) ==
    LET p == Cardinality({i \in 1..Len(sorted) :
                 sorted[i].last_commit_date.ticks > x.last_commit_date.ticks})
    IN  SubSeq(sorted, 1, p) \o <<x>> \o SubSeq(sorted, p + 1, Len(sorted))

\* list.sort(key=last_commit_date, reverse=True): newest first, and stable
InsertByDate(sorted, x) ==
    LET p == Cardinality({i \in 1..Len(sorted) :
                 sorted[i].last_commit_date.ticks >= x.last_commit_date.ticks})
    IN  SubSeq(sorted, 1, p) \o <<x>> \o SubSeq(sorted, p + 1, Len(sorted))

RECURSIVE SortByDate(_)
SortByDate(infos) ==
    IF infos = <<>> THEN <<>>
    ELSE InsertByDate(SortByDate(SubSeq(infos, 1, Len(infos) - 1)),
                      infos[Len(infos)])

\* the threshold test with >= for >
IsStaleInclusive(b, t, stale_days) == DaysSinceUpdate(b, t) >= stale_days

IsStale(b, t, stale_days) == DaysSinceUpdate(b, t) > stale_days

IsActive(b, t, stale_days) == DaysSinceUpdate(b, t) <= stale_days

ToDict(b, t) ==
    [name |-> b.name, last_commit_date |-> b.last_commit_date,
     last_commit_sha |-> b.last_commit_sha, last_commit_msg |-> b.last_commit_msg,
     author |-> b.author, commit_count |-> b.commit_count,
     is_merged |-> b.is_merged, ahead_behind |-> b.ahead_behind,
     days_since_update |-> DaysSinceUpdate(b, t)]

\* the dictionary analyze() returns; t is the clock when it is built
AnalysisDict(infos, stale, active, cur, def, stale_days, t) ==
    LET merged == SelectSeq(infos, LAMBDA b : b.is_merged)
    IN  [summary |-> [total_branches |-> Len(infos),
                      active_branches |-> Len(active),
                      stale_branches |-> Len(stale),
                      merged_branches |-> Len(merged),
                      current_branch |-> cur,
                      default_branch |-> def,
                      stale_threshold_days |-> stale_days],
         stale_branches |-> [i \in 1..Len(stale) |-> ToDict(stale[i], t)],
         active_branches |-> [i \in 1..Len(active) |-> ToDict(active[i], t)],
         merged_branches |-> [i \in 1..Len(merged) |-> ToDict(merged[i], t)]]

----------------------------------------------------------------------------
(* print_text_report and json.dumps *)

NamesOf(list) == [i \in 1..Len(list) |-> list[i].name]

\* a recommendation whose remainder line counts from the cap itself
RecommendationOffByOne(list) ==
    IF list = <<>> THEN [count |-> <<>>, shown |-> <<>>, more |-> <<>>]
    ELSE [count |-> <<Len(list)>>,
          shown |-> NamesOf(SubSeq(list, 1, Min(RecommendationCap, Len(list)))),
          more |-> IF Len(list) >= RecommendationCap
                   THEN <<Len(list) - RecommendationCap + 1>> ELSE <<>>]

\* one recommendation: nothing when no branch qualifies, else the count,
\* the first names and, past the cap, the "... and N more" line
Recommendation(list) ==
    IF list = <<>> THEN [count |-> <<>>, shown |-> <<>>, more |-> <<>>]
    ELSE [count |-> <<Len(list)>>,
          shown |-> NamesOf(SubSeq(list, 1, Min(RecommendationCap, Len(list)))),
          more |-> IF Len(list) > RecommendationCap
                   THEN <<Len(list) - RecommendationCap>> ELSE <<>>]

\* authors = {}; authors[a] = authors.get(a, 0) + 1, in first-seen order
RECURSIVE AuthorCounts(_)
AuthorCounts(list) ==
    IF list = <<>> THEN <<>>
    ELSE LET rest == AuthorCounts(SubSeq(list, 1, Len(list) - 1))
             a == list[Len(list)].author
         IN  IF \E i \in 1..Len(rest) : rest[i].author = a
             THEN [i \in 1..Len(rest) |->
                      IF rest[i].author = a
                      THEN [rest[i] EXCEPT !.count = @ + 1] ELSE rest[i]]
             ELSE rest \o <<[author |-> a, count |-> 1]>>

\* sorted(authors.items(), key=count, reverse=True)[:5]
InsertByCount(sorted, x) ==
    LET p == Cardinality({i \in 1..Len(sorted) : sorted[i].count >= x.count})
    IN  SubSeq(sorted, 1, p) \o <<x>> \o SubSeq(sorted, p + 1, Len(sorted))

RECURSIVE SortByCount(_)
SortByCount(items) ==
    IF items = <<>> THEN <<>>
    ELSE InsertByCount(SortByCount(SubSeq(items, 1, Len(items) - 1)),
                       items[Len(items)])

Contributors(active) ==
    LET top == SortByCount(AuthorCounts(active))
    IN  SubSeq(top, 1, Min(RecommendationCap, Len(top)))

\* the report keeps, of every printed line, the values it is made of
PrintTextReport(a) ==
    [kind |-> "text",
     header |-> <<a.summary.current_branch, a.summary.default_branch,
                  a.summary.stale_threshold_days>>,
     summary |-> <<a.summary.total_branches, a.summary.active_branches,
                   a.summary.stale_branches, a.summary.merged_branches>>,
     stale_section |->
        [i \in 1..Len(a.stale_branches) |->
            LET b == a.stale_branches[i]
            IN  [name |-> b.name, days |-> b.days_since_update,
                 author |-> b.author, merged |-> b.is_merged,
                 position |-> b.ahead_behind]],
     deletable |->
        Recommendation(SelectSeq(a.stale_branches, LAMBDA b : b.is_merged)),
     stale_unmerged |->
        Recommendation(SelectSeq(a.stale_branches, LAMBDA b : ~b.is_merged)),
     contributors |-> Contributors(a.active_branches)]

\* json.dumps(analysis, indent=2)
JsonDumps(a) == [kind |-> "json", doc |-> a]

\* main(): if args.json
UseJson(a) == a.json

----------------------------------------------------------------------------
(* The inputs: the repositories the program is run in, and its options.    *)

Range(f) == {f[i] : i \in DOMAIN f}

ReportName(i) == <<"r", Digits[i]>>

\* local branches in the order git lists them
Pool == <<FeatureX, FeatureX2, FeatureY, Main>>
ErrPool == <<FeatureX, FeatureY, Main>>

RECURSIVE SeqFrom(_, _, _)
SeqFrom(pool, S, i) ==
    IF i > Len(pool) THEN <<>>
    ELSE (IF i \in S THEN <<pool[i]>> ELSE <<>>) \o SeqFrom(pool, S, i + 1)

RefLists(pool, max) ==
    {SeqFrom(pool, S, 1) :
        S \in {T \in SUBSET (1..Len(pool)) : Cardinality(T) <= max}}

AuthorOf(name) == IF name = FeatureX THEN "alice" ELSE "bob"

LogLine(name, date) ==
    Printed(<<TextPiece("sha"), date, TextPiece(AuthorOf(name)), TextPiece("subject")>>)

GoodCount == Printed(<<IntTok(3)>>)
GoodAheadBehind == Printed(<<IntTok(1), IntTok(2)>>)

\* ages of the last commit when the process starts, in ticks
AgeChoices == {-1, 0, 10 * TicksPerDay, 30 * TicksPerDay + 1, 45 * TicksPerDay}
StaleAge == 45 * TicksPerDay
StaleDaysChoices == {10, DefaultStaleDays}

Repository(refs, remotes, log, count, ab, merged) ==
    [inRepo |-> TRUE, listOk |-> TRUE, refs |-> refs,
     head |-> IF refs = <<>> THEN EmptyStr ELSE refs[Len(refs)],
     remotes |-> remotes, log |-> log, count |-> count, ab |-> ab,
     merged |-> merged]

\* the default branch is reachable from itself
MergedChoices(refs) ==
    IF Main \in Range(refs)
    THEN {M \cup {Main} : M \in SUBSET (Range(refs) \ {Main})}
    ELSE {{}}

\* repositories whose branches differ in the date of their last commit
TimeRepo(refs, age) ==
    Repository(refs, <<>>,
               [n \in Range(refs) |-> LogLine(n, DatePiece(Now0 - age[n], ""))],
               [n \in Range(refs) |-> GoodCount],
               [n \in Range(refs) |-> GoodAheadBehind],
               Range(refs) \cap {Main, FeatureX})

TimeRepos ==
    UNION {{TimeRepo(refs, age) : age \in [Range(refs) -> AgeChoices]} :
              refs \in RefLists(Pool, MaxBranches)}

\* repositories that differ in which branches are merged, with or without
\* a remote-tracking branch
MergeRepo(refs, remotes, merged) ==
    Repository(refs, remotes,
               [n \in Range(refs) \cup Range(remotes) |->
                    LogLine(n, DatePiece(Now0 - StaleAge, ""))],
               [n \in Range(refs) \cup Range(remotes) |-> GoodCount],
               [n \in Range(refs) \cup Range(remotes) |-> GoodAheadBehind],
               merged)

MergeRepos ==
    UNION {{MergeRepo(refs, remotes, merged) :
                remotes \in {<<>>, <<OriginMain>>},
                merged \in MergedChoices(refs)} :
              refs \in RefLists(Pool, MaxBranches)}

\* what git may answer about one branch: a well-formed record, or one of
\* the ways an answer fails or is malformed
GoodBranch ==
    [log |-> "naive", count |-> GoodCount, ab |-> GoodAheadBehind]

BranchAnswers ==
    {GoodBranch,
     [GoodBranch EXCEPT !.log = "offset"],
     [GoodBranch EXCEPT !.log = "zulu"],
     [GoodBranch EXCEPT !.log = "failed"],
     [GoodBranch EXCEPT !.log = "short"],
     [GoodBranch EXCEPT !.log = "long"],
     [GoodBranch EXCEPT !.log = "baddate"],
     [GoodBranch EXCEPT !.count = Printed(<<JunkTok>>)],
     [GoodBranch EXCEPT !.count = Failed],
     [GoodBranch EXCEPT !.ab = Failed],
     [GoodBranch EXCEPT !.ab = Printed(<<IntTok(4)>>)],
     [GoodBranch EXCEPT !.ab = Printed(<<IntTok(4), JunkTok>>)],
     [GoodBranch EXCEPT !.ab = Printed(<<IntTok(0), IntTok(7)>>)]}

AnswerLog(name, kind) ==
    CASE kind = "naive" -> LogLine(name, DatePiece(Now0 - StaleAge, ""))
      [] kind = "offset" -> LogLine(name, DatePiece(Now0 - StaleAge, "+02:00"))
      [] kind = "zulu" -> LogLine(name, DatePiece(Now0 - StaleAge, "Z"))
      [] kind = "failed" -> Failed
      [] kind = "short" -> Printed(<<TextPiece("sha"), DatePiece(Now0, "")>>)
      [] kind = "long" ->
            Printed(<<TextPiece("sha"), DatePiece(Now0 - StaleAge, ""),
                      TextPiece(AuthorOf(name)), TextPiece("a"), TextPiece("b")>>)
      [] kind = "baddate" ->
            Printed(<<TextPiece("sha"), TextPiece("yesterday"),
                      TextPiece(AuthorOf(name)), TextPiece("subject")>>)

ErrorRepo(refs, answer) ==
    Repository(refs, <<>>,
               [n \in Range(refs) |-> AnswerLog(n, answer[n].log)],
               [n \in Range(refs) |-> answer[n].count],
               [n \in Range(refs) |-> answer[n].ab],
               Range(refs) \cap {Main, FeatureX})

ErrorRepos ==
    UNION {{ErrorRepo(refs, answer) : answer \in [Range(refs) -> BranchAnswers]} :
              refs \in RefLists(ErrPool, MaxBranches)}

\* repositories with many stale branches, for the text report
ReportRefs == <<Main>> \o [i \in 1..MaxReportBranches |-> ReportName(i)]

ReportRepos ==
    {MergeRepo(ReportRefs, <<>>, merged) : merged \in MergedChoices(ReportRefs)}

\* a directory outside any repository, and a repository whose listing fails
NoRepo ==
    [Repository(<<>>, <<>>, <<>>, <<>>, <<>>, {}) EXCEPT
        !.inRepo = FALSE, !.listOk = FALSE]

BrokenRepo == [Repository(<<>>, <<>>, <<>>, <<>>, <<>>, {}) EXCEPT !.listOk = FALSE]

Options(days, remote, json) ==
    [stale_days |-> days, include_remote |-> remote, json |-> json]

Inputs ==
    ({[repo |-> r, args |-> Options(d, FALSE, j)] :
        r \in TimeRepos, d \in StaleDaysChoices, j \in BOOLEAN})
    \cup
    ({[repo |-> r, args |-> Options(DefaultStaleDays, m, j)] :
        r \in MergeRepos, m \in BOOLEAN, j \in BOOLEAN})
    \cup
    ({[repo |-> r, args |-> Options(DefaultStaleDays, FALSE, j)] :
        r \in ErrorRepos \cup ReportRepos \cup {NoRepo, BrokenRepo}, j \in BOOLEAN})

----------------------------------------------------------------------------
(* The program *)

Init ==
    /\ \E in \in Inputs : repo = in.repo /\ args = in.args
    /\ now = Now0
    /\ pc = "start"
    /\ current_branch = EmptyStr
    /\ default_branch = EmptyStr
    /\ branches = <<>>
    /\ idx = 1
    /\ branch_infos = <<>>
    /\ stale_branches = <<>>
    /\ active_branches = <<>>
    /\ tStale = Now0
    /\ tActive = Now0
    /\ analysis = <<>>
    /\ stdout = <<>>
    /\ stderr = <<>>
    /\ exit_code = -1
    /\ queries = {}

\* main(): an exception escaped analyze(); report it and exit 1
AnalysisFails ==
    /\ stderr' = stderr \o <<"Error during analysis">>
    /\ exit_code' = 1
    /\ pc' = "done"

\* main(): the repository check
MainCheckRepo ==
    /\ pc = "start"
    /\ queries' = queries \cup {"git-dir"}
    /\ IF InGitRepository(repo)
       THEN /\ pc' = "construct"
            /\ UNCHANGED <<stderr, exit_code>>
       ELSE /\ stderr' = stderr \o <<"Error: Not a git repository">>
            /\ exit_code' = 1
            /\ pc' = "done"
    /\ UNCHANGED <<repo, args, now, current_branch, default_branch, branches,
                   idx, branch_infos, stale_branches, active_branches, tStale,
                   tActive, analysis, stdout>>

\* GitBranchAnalyzer.__init__
AnalyzerInit ==
    /\ pc = "construct"
    /\ LET cur == GetCurrentBranch(repo)
           def == GetDefaultBranch(repo)
       IN  /\ current_branch' = cur.value
           /\ default_branch' = def.value
           /\ stderr' = stderr \o cur.err \o def.err
    /\ queries' = queries \cup {"current-branch", "branch-list"}
    /\ pc' = "list"
    /\ UNCHANGED <<repo, args, now, branches, idx, branch_infos, stale_branches,
                   active_branches, tStale, tActive, analysis, stdout, exit_code>>

\* analyze(): branches = self.get_branches()
AnalyzeGetBranches ==
    /\ pc = "list"
    /\ LET res == GetBranches(repo, args)
       IN  /\ branches' = res.value
           /\ stderr' = stderr \o res.err
    /\ idx' = 1
    /\ queries' = queries \cup {"branch-list"}
    /\ pc' = "inspect"
    /\ UNCHANGED <<repo, args, now, current_branch, default_branch, branch_infos,
                   stale_branches, active_branches, tStale, tActive, analysis,
                   stdout, exit_code>>

\* analyze(): one turn of the loop over branches
AnalyzeInspect ==
    /\ pc = "inspect"
    /\ idx <= Len(branches)
    /\ LET res == GetBranchInfo(repo, branches[idx], default_branch)
       IN  /\ branch_infos' = branch_infos \o res.info
           /\ stderr' = stderr \o res.err
           /\ queries' = queries \cup res.q
    /\ idx' = idx + 1
    /\ UNCHANGED <<repo, args, now, pc, current_branch, default_branch, branches,
                   stale_branches, active_branches, tStale, tActive, analysis,
                   stdout, exit_code>>

\* analyze(): branch_infos.sort(...)
AnalyzeSort ==
    /\ pc = "inspect"
    /\ idx > Len(branches)
    /\ IF SortRaises(branch_infos)
       THEN /\ AnalysisFails
            /\ UNCHANGED branch_infos
       ELSE /\ branch_infos' = SortByDate(branch_infos)
            /\ pc' = "stale"
            /\ UNCHANGED <<stderr, exit_code>>
    /\ UNCHANGED <<repo, args, now, current_branch, default_branch, branches,
                   idx, stale_branches, active_branches, tStale, tActive,
                   analysis, stdout, queries>>

\* analyze(): stale_branches = [b for b in branch_infos if ...]
AnalyzeStale ==
    /\ pc = "stale"
    /\ tStale' = now
    /\ IF \E i \in 1..Len(branch_infos) : SubtractRaises(branch_infos[i])
       THEN /\ AnalysisFails
            /\ UNCHANGED stale_branches
       ELSE /\ stale_branches' =
                  SelectSeq(branch_infos, LAMBDA b : IsStale(b, now, args.stale_days))
            /\ pc' = "active"
            /\ UNCHANGED <<stderr, exit_code>>
    /\ UNCHANGED <<repo, args, now, current_branch, default_branch, branches,
                   idx, branch_infos, active_branches, tActive, analysis,
                   stdout, queries>>

\* analyze(): active_branches = [b for b in branch_infos if ...]
AnalyzeActive ==
    /\ pc = "active"
    /\ tActive' = now
    /\ active_branches' =
          SelectSeq(branch_infos, LAMBDA b : IsActive(b, now, args.stale_days))
    /\ pc' = "return"
    /\ UNCHANGED <<repo, args, now, current_branch, default_branch, branches,
                   idx, branch_infos, stale_branches, tStale, analysis, stdout,
                   stderr, exit_code, queries>>

\* analyze(): the merged bucket and the returned dictionary
AnalyzeReturn ==
    /\ pc = "return"
    /\ analysis' = <<AnalysisDict(branch_infos, stale_branches, active_branches,
                                  current_branch, default_branch,
                                  args.stale_days, now)>>
    /\ pc' = "output"
    /\ UNCHANGED <<repo, args, now, current_branch, default_branch, branches,
                   idx, branch_infos, stale_branches, active_branches, tStale,
                   tActive, stdout, stderr, exit_code, queries>>

\* main(): print the analysis and return
MainOutput ==
    /\ pc = "output"
    /\ stdout' = IF UseJson(args) THEN <<JsonDumps(analysis[1])>>
                 ELSE <<PrintTextReport(analysis[1])>>
    /\ exit_code' = 0
    /\ pc' = "done"
    /\ UNCHANGED <<repo, args, now, current_branch, default_branch, branches,
                   idx, branch_infos, stale_branches, active_branches, tStale,
                   tActive, analysis, stderr, queries>>

\* the wall clock advances while the process runs
Tick ==
    /\ pc # "done"
    /\ now < Now0 + MaxTicks
    /\ now' = now + 1
    /\ UNCHANGED <<repo, args, pc, current_branch, default_branch, branches,
                   idx, branch_infos, stale_branches, active_branches, tStale,
                   tActive, analysis, stdout, stderr, exit_code, queries>>

Next ==
    \/ MainCheckRepo
    \/ AnalyzerInit
    \/ AnalyzeGetBranches
    \/ AnalyzeInspect
    \/ AnalyzeSort
    \/ AnalyzeStale
    \/ AnalyzeActive
    \/ AnalyzeReturn
    \/ MainOutput
    \/ Tick

Spec == Init /\ [][Next]_vars

----------------------------------------------------------------------------
(* Properties *)

Succeeded == pc = "done" /\ exit_code = 0

Result == analysis[1]

InBucket(b, bucket) == \E j \in 1..Len(bucket) : bucket[j].name = b.name

ListingIndex(name) == CHOOSE k \in 1..Len(branches) : branches[k] = name

\* the names `git branch --merged <default>` prints, one per line
MergedListing ==
    LET lines == SplitLines(RunGitLines(GitBranchMerged(repo, default_branch)).out)
    IN  {Replace(Strip(lines[i]), StarMarker, EmptyStr) : i \in 1..Len(lines)}

\* C1: when analyze() returns, every inspected branch is in exactly one of
\* the stale and the active bucket, and the stale and active counts add up
\* to the total.
C1_ExclusivePartition ==
    Succeeded =>
        /\ Result.summary.stale_branches + Result.summary.active_branches
              = Result.summary.total_branches
        /\ \A i \in 1..Len(branch_infos) :
              InBucket(branch_infos[i], Result.stale_branches)
                 # InBucket(branch_infos[i], Result.active_branches)

\* C2: a branch of the merged bucket is named, as a whole line, in the
\* listing of the branches merged into the default branch.
C2_MergedWholeToken ==
    Succeeded =>
        \A i \in 1..Len(Result.merged_branches) :
            Result.merged_branches[i].name \in MergedListing

\* C3: when the inspection of a listed branch gives no record, the run
\* still ends with exit code 0, that branch is in no bucket and not
\* counted, and every other listed branch is reported.
C3_FailedBranchSkipped ==
    (/\ pc = "done"
     /\ InGitRepository(repo)
     /\ \E k \in 1..Len(branches) :
           GetBranchInfo(repo, branches[k], default_branch).info = <<>>)
    => /\ exit_code = 0
       /\ \A k \in 1..Len(branches) :
             LET got == GetBranchInfo(repo, branches[k], default_branch).info
                 b == [name |-> branches[k]]
             IN  IF got = <<>>
                 THEN /\ ~InBucket(b, Result.stale_branches)
                      /\ ~InBucket(b, Result.active_branches)
                      /\ ~InBucket(b, Result.merged_branches)
                 ELSE \/ InBucket(b, Result.stale_branches)
                      \/ InBucket(b, Result.active_branches)
       /\ Result.summary.total_branches =
             Cardinality({k \in 1..Len(branches) :
                 GetBranchInfo(repo, branches[k], default_branch).info # <<>>})

\* C4: main (0 days old), feature-x (45 days, merged) and feature-y (10
\* days, not merged) with a threshold of 30 days give stale = [feature-x],
\* active = [main, feature-y], merged = [feature-x] and a total of 3.
ScenarioRefs == <<FeatureX, FeatureY, Main>>

ScenarioRepo ==
    TimeRepo(ScenarioRefs,
             [n \in Range(ScenarioRefs) |->
                 IF n = FeatureX THEN 45 * TicksPerDay
                 ELSE IF n = FeatureY THEN 10 * TicksPerDay ELSE 0])

C4_Scenario ==
    (pc = "done" /\ repo = ScenarioRepo /\ args.stale_days = DefaultStaleDays)
    => /\ exit_code = 0
       /\ NamesOf(Result.stale_branches) = <<FeatureX>>
       /\ NamesOf(Result.active_branches) = <<Main, FeatureY>>
       /\ NamesOf(Result.merged_branches) = <<FeatureX>>
       /\ Result.summary.total_branches = 3

\* C5: a branch is put in the stale bucket iff its age in whole days, when
\* the stale test reads the clock, is greater than the threshold, and in
\* the active bucket iff its age, when the active test reads the clock, is
\* at most the threshold; so a branch exactly --days days old is active.
C5_ThresholdTest ==
    (pc \in {"return", "output", "done"} /\ exit_code # 1) =>
        \A i \in 1..Len(branch_infos) :
            LET b == branch_infos[i]
                ageAtStale == (tStale - b.last_commit_date.ticks) \div TicksPerDay
                ageAtActive == (tActive - b.last_commit_date.ticks) \div TicksPerDay
            IN  /\ InBucket(b, stale_branches) <=> ageAtStale > args.stale_days
                /\ InBucket(b, active_branches) <=> ageAtActive <= args.stale_days
                /\ (ageAtStale = args.stale_days /\ ageAtActive = args.stale_days)
                      => (InBucket(b, active_branches) /\ ~InBucket(b, stale_branches))

\* a run that bucketed a branch exactly --days days old and an older one
C5_Witness ==
    /\ Succeeded
    /\ \E i, j \in 1..Len(branch_infos) :
          /\ (tStale - branch_infos[i].last_commit_date.ticks) \div TicksPerDay
                = args.stale_days
          /\ (tActive - branch_infos[i].last_commit_date.ticks) \div TicksPerDay
                = args.stale_days
          /\ InBucket(branch_infos[i], Result.active_branches)
          /\ InBucket(branch_infos[j], Result.stale_branches)

\* C6: in each of the three buckets the last-commit timestamps never
\* increase, and branches of equal timestamp are in listing order.
Ordered(bucket) ==
    \A i, j \in 1..Len(bucket) :
        i < j =>
            /\ bucket[i].last_commit_date.ticks >= bucket[j].last_commit_date.ticks
            /\ bucket[i].last_commit_date.ticks = bucket[j].last_commit_date.ticks
                  => ListingIndex(bucket[i].name) < ListingIndex(bucket[j].name)

C6_BucketsSorted ==
    Succeeded =>
        /\ Ordered(Result.stale_branches)
        /\ Ordered(Result.active_branches)
        /\ Ordered(Result.merged_branches)

\* a bucket of three where two branches tie and the sort moved a branch
C6_Witness ==
    /\ Succeeded
    /\ \E bucket \in {Result.stale_branches, Result.active_branches} :
          /\ Len(bucket) = 3
          /\ bucket[1].last_commit_date.ticks > bucket[2].last_commit_date.ticks
          /\ bucket[2].last_commit_date.ticks = bucket[3].last_commit_date.ticks
          /\ ListingIndex(bucket[1].name) > ListingIndex(bucket[3].name)

\* C7: outside a repository the run asks git nothing but the repository
\* check, prints nothing on standard output, and ends with "Error: Not a
\* git repository" on standard error and exit code 1.
C7_NotARepository ==
    ~repo.inRepo =>
        /\ queries \subseteq {"git-dir"}
        /\ stdout = <<>>
        /\ analysis = <<>>
        /\ pc \in {"start", "done"}
        /\ pc = "done" =>
              /\ stderr = <<"Error: Not a git repository">>
              /\ exit_code = 1

C7_Witness ==
    pc = "done" /\ ~repo.inRepo /\ exit_code = 1 /\ queries = {"git-dir"}

\* C8: a --json run whose listing prints no branch, or fails, finds no
\* branch, ends with exit code 0 and prints a result with three empty
\* lists and four zero counts.
NothingListed ==
    LET res == GitBranchList(repo, args.include_remote)
    IN  ~res.ok \/ res.out = <<>>

C8_NoBranches ==
    (pc = "done" /\ InGitRepository(repo) /\ args.json /\ NothingListed)
    => /\ branches = <<>>
       /\ exit_code = 0
       /\ Len(stdout) = 1
       /\ stdout[1].kind = "json"
       /\ stdout[1].doc.stale_branches = <<>>
       /\ stdout[1].doc.active_branches = <<>>
       /\ stdout[1].doc.merged_branches = <<>>
       /\ stdout[1].doc.summary.total_branches = 0
       /\ stdout[1].doc.summary.active_branches = 0
       /\ stdout[1].doc.summary.stale_branches = 0
       /\ stdout[1].doc.summary.merged_branches = 0

\* the listing command failed and was swallowed into the empty string
C8_Witness ==
    /\ pc = "done" /\ repo.inRepo /\ args.json
    /\ ~GitBranchList(repo, args.include_remote).ok
    /\ branches = <<>>
    /\ stdout # <<>>

\* C9: in the text report each recommendation with k qualifying branches
\* lists all k names and no remainder when k <= 5, and the first 5 names
\* and a remainder of k - 5 when k > 5; the two recommendations together
\* count every stale branch once.
Capped(rec, names) ==
    LET k == Len(names)
    IN  /\ k <= RecommendationCap => (rec.shown = names /\ rec.more = <<>>)
        /\ k > RecommendationCap =>
              /\ rec.shown = SubSeq(names, 1, RecommendationCap)
              /\ rec.more = <<k - RecommendationCap>>
        /\ rec.count = IF k = 0 THEN <<>> ELSE <<k>>

C9_RecommendationCap ==
    (Succeeded /\ ~args.json) =>
        LET stale == Result.stale_branches
            deletable == NamesOf(SelectSeq(stale, LAMBDA b : b.is_merged))
            unmerged == NamesOf(SelectSeq(stale, LAMBDA b : ~b.is_merged))
        IN  /\ Capped(stdout[1].deletable, deletable)
            /\ Capped(stdout[1].stale_unmerged, unmerged)
            /\ Len(deletable) + Len(unmerged) = Len(stale)
            /\ \A i \in 1..Len(stale) :
                  (stale[i].name \in Range(deletable))
                     # (stale[i].name \in Range(unmerged))

\* a text report with more than 5 deletable branches and some unmerged one
C9_Witness ==
    /\ Succeeded /\ ~args.json
    /\ stdout[1].deletable.more # <<>>
    /\ Len(stdout[1].deletable.shown) = RecommendationCap
    /\ stdout[1].stale_unmerged.count # <<>>

\* C10: the record of the default branch has no ahead/behind pair; the
\* record of another branch has the pair (y, x) when the count query
\* prints the two integers x y, and no pair when the query fails or prints
\* anything else; and the record is returned with the fields the other
\* queries gave whatever the count query did.
WellFormed(name) ==
    LET log == GitLog(repo, name)
        cnt == GitCount(repo, name)
    IN  /\ log.ok /\ Len(log.out) >= 4 /\ log.out[2].iso
        /\ (~cnt.ok \/ cnt.out = <<>> \/ (Len(cnt.out) = 1 /\ cnt.out[1].int))

====
